---- MODULE Spec2Model ----
(***************************************************************************)
(* MotionPhotoMuxer.py: discovery of (photo, video) pairs in a directory,  *)
(* per-pair validation, conversion through the external collaborator and  *)
(* the copy of the unpaired files.                                         *)
(*                                                                         *)
(* A path is a record [dir, stem, ext]: its parent directory, the tokens   *)
(* of its stem (one character each) and its final suffix without the dot.  *)
(* The filesystem is the set fs of the regular files that exist; it can be *)
(* changed by other processes while the program runs.                      *)
(***************************************************************************)
EXTENDS Integers, Sequences, FiniteSets, TLC

VARIABLES
    args,            \* parsed command line: dir, recurse, copyall, photo, video
    rootKind,        \* what args.dir names on disk: "dir", "file" or "missing"
    fs,              \* regular files that exist now
    fsChanges,       \* number of changes other processes made to fs
    pc,              \* position of main
    todo,            \* entries of the walk not yet visited by process_directory
    subListed,       \* rglob has listed the subdirectory
    cur,             \* the entry process_directory is looking at
    file_pairs,      \* process_directory's result
    idx,             \* position of `for pair in pairs`
    processed_files, \* main's set of consumed inputs
    calls,           \* invocations of create_motion_photo, with their outcome
    log,             \* logging.error records
    all_files,       \* main line 95
    remaining_files, \* main line 96
    copied,          \* files shutil.copy2 has copied to outdir
    outdirCreated,   \* outdir.mkdir has run
    exitCode,        \* -1 while running, else the process's exit status
    mvResult         \* value returned by a direct call of matching_video

vars == <<args, rootKind, fs, fsChanges, pc, todo, subListed, cur, file_pairs,
          idx, processed_files, calls, log, all_files, remaining_files,
          copied, outdirCreated, exitCode, mvResult>>

----------------------------------------------------------------------------
(* Bounds *)

MaxFiles == 4        \* regular files in the tree when the program starts
MaxFsChanges == 2    \* changes made by other processes during one run
MaxEntries == 3      \* entries of the directory a resolver call looks into

----------------------------------------------------------------------------
(* Paths *)

None == [dir |-> "None", stem |-> <<>>, ext |-> ""]        \* argparse default

P(d, s, e) == [dir |-> d, stem |-> s, ext |-> e]

\* Path(""): pathlib makes it ".", which exists, is no file and has no suffix.
NoPath == [dir |-> ".", stem |-> <<>>, ext |-> ""]

Root == "root"           \* parent of the direct children of args.dir
Sub == "root/sub"        \* parent of the files of its subdirectory
RootDir == [dir |-> ".", stem |-> <<"root">>, ext |-> ""]      \* args.dir

\* str.lower on the suffixes that occur
Lower(e) ==
    CASE e = "JPG" -> "jpg"
      [] e = "JPEG" -> "jpeg"
      [] e = "MOV" -> "mov"
      [] e = "Mov" -> "mov"
      [] e = "MP4" -> "mp4"
      [] OTHER -> e

\* Path.exists against the filesystem fsys
Exists(p, fsys) == p = NoPath \/ p \in fsys

\* Path.is_file
IsFile(p, fsys) == p \in fsys

----------------------------------------------------------------------------
(* glob.glob(base + ".*"): fnmatch of the entries of base's directory        *)
(* against the pattern made of base's characters, ".", "*".                  *)

\* fnmatch.translate, scan for the "]" that closes a class opened before j
RECURSIVE ScanClose(_, _)
ScanClose(pat, j) ==
    IF j > Len(pat) THEN 0
    ELSE IF pat[j] = "]" THEN j
    ELSE ScanClose(pat, j + 1)

\* position of the closing "]" of the class opened at pat[1] = "[", 0 if none
ClassEnd(pat) ==
    LET j1 == IF Len(pat) >= 2 /\ pat[2] = "!" THEN 3 ELSE 2
        j2 == IF Len(pat) >= j1 /\ pat[j1] = "]" THEN j1 + 1 ELSE j1
    IN ScanClose(pat, j2)

RECURSIVE FnMatch(_, _)
FnMatch(name, pat) ==
    IF pat = <<>> THEN name = <<>>
    ELSE IF Head(pat) = "*" THEN
        FnMatch(name, Tail(pat)) \/ (name # <<>> /\ FnMatch(Tail(name), pat))
    ELSE IF Head(pat) = "?" THEN
        name # <<>> /\ FnMatch(Tail(name), Tail(pat))
    ELSE IF Head(pat) = "[" /\ ClassEnd(pat) # 0 THEN
        LET j == ClassEnd(pat)
            neg == pat[2] = "!"
            stuff == {pat[k] : k \in (IF neg THEN 3 ELSE 2) .. (j - 1)}
        IN /\ name # <<>>
           /\ (Head(name) \in stuff) # neg
           /\ FnMatch(Tail(name), SubSeq(pat, j + 1, Len(pat)))
    ELSE name # <<>> /\ Head(name) = Head(pat) /\ FnMatch(Tail(name), Tail(pat))

\* the name of an entry as fnmatch sees it; the suffix is one token
NameOf(p) == p.stem \o <<".", p.ext>>

Glob(base, fsys) ==
    {f \in fsys : f.dir = base.dir /\ FnMatch(NameOf(f), base.stem \o <<".", "*">>)}

VideoExts == <<"mov", "mp4", "MOV", "MP4">>

RECURSIVE FirstExt(_, _, _)
FirstExt(base, files, i) ==
    IF i > Len(VideoExts) THEN NoPath
    ELSE IF P(base.dir, base.stem, VideoExts[i]) \in files
         THEN P(base.dir, base.stem, VideoExts[i])
    ELSE FirstExt(base, files, i + 1)

matching_video(photo_path, fsys) ==
    LET base == P(photo_path.dir, photo_path.stem, "")
        files == Glob(base, fsys)
    IN FirstExt(base, files, 1)

----------------------------------------------------------------------------
(* validate_media: the outcome and the errors it logs *)

Entry(check, path) == [check |-> check, path |-> path]

\* validate_media without the check of lines 29-31
validate_media_NoVideoCheck(photo_path, video_path, fsys) ==
    IF ~Exists(photo_path, fsys)
        THEN [ok |-> FALSE, errors |-> <<Entry("photo_exists", photo_path)>>]
    ELSE IF ~(Lower(photo_path.ext) \in {"jpg", "jpeg"})
        THEN [ok |-> FALSE, errors |-> <<Entry("photo_ext", photo_path)>>]
    ELSE IF ~(Lower(video_path.ext) \in {"mov", "mp4"})
        THEN [ok |-> FALSE, errors |-> <<Entry("video_ext", photo_path)>>]
    ELSE [ok |-> TRUE, errors |-> <<>>]

validate_media(photo_path, video_path, fsys) ==
    IF ~Exists(photo_path, fsys)
        THEN [ok |-> FALSE, errors |-> <<Entry("photo_exists", photo_path)>>]
    ELSE IF ~Exists(video_path, fsys)
        THEN [ok |-> FALSE, errors |-> <<Entry("video_exists", video_path)>>]
    ELSE IF ~(Lower(photo_path.ext) \in {"jpg", "jpeg"})
        THEN [ok |-> FALSE, errors |-> <<Entry("photo_ext", photo_path)>>]
    ELSE IF ~(Lower(video_path.ext) \in {"mov", "mp4"})
        THEN [ok |-> FALSE, errors |-> <<Entry("video_ext", photo_path)>>]
    ELSE [ok |-> TRUE, errors |-> <<>>]

----------------------------------------------------------------------------
(* The inputs *)

A == <<"a">>
B == <<"b">>
C == <<"c">>
A1 == <<"a", "1">>
ABr == <<"a", "[", "1", "]">>

\* the files that can exist under args.dir during a run
Universe ==
    {P(Root, A, "jpg"), P(Root, A, "jpeg"), P(Root, A, "mov"), P(Root, A, "mp4"),
     P(Root, C, "txt"), P(Sub, B, "JPG"), P(Sub, B, "MP4")}

DirArgs ==
    {[dir |-> RootDir, recurse |-> r, copyall |-> c, photo |-> None, video |-> None] :
        r \in BOOLEAN, c \in BOOLEAN}

SingleArgs ==
    {[dir |-> None, recurse |-> FALSE, copyall |-> FALSE, photo |-> p, video |-> v] :
        p \in Universe \cup {None}, v \in Universe \cup {None}}

Running == -1

\* a local of main that no assignment has bound yet
Unbound == {None}

Init ==
    /\ args \in DirArgs \cup SingleArgs
    /\ rootKind \in {"dir", "file", "missing"}
    /\ args.dir = None => rootKind = "dir"
    /\ fs \in {S \in SUBSET Universe : Cardinality(S) <= MaxFiles}
    /\ rootKind # "dir" => fs = {}
    /\ fsChanges = 0
    /\ pc = "start"
    /\ todo = {}
    /\ subListed = FALSE
    /\ cur = None
    /\ file_pairs = <<>>
    /\ idx = 1
    /\ processed_files = {}
    /\ calls = <<>>
    /\ log = <<>>
    /\ all_files = Unbound
    /\ remaining_files = Unbound
    /\ copied = {}
    /\ outdirCreated = FALSE
    /\ exitCode = Running
    /\ mvResult = None

----------------------------------------------------------------------------
(* Other processes *)

\* a file of the tree is created or deleted while the program runs
FsChange ==
    /\ pc \notin {"start", "done", "mv_call", "mv_done"}
    /\ fsChanges < MaxFsChanges
    /\ \E f \in Universe : fs' = IF f \in fs THEN fs \ {f} ELSE fs \cup {f}
    /\ fsChanges' = fsChanges + 1
    /\ UNCHANGED <<args, rootKind, pc, todo, subListed, cur, file_pairs, idx,
                   processed_files, calls, log, all_files, remaining_files,
                   copied, outdirCreated, exitCode, mvResult>>

----------------------------------------------------------------------------
(* main, directory mode *)

\* ValidateDirectoryFail without the exit(1) of lines 13 and 16
ValidateDirectoryFail_Continue ==
    /\ pc = "start"
    /\ args.dir # None
    /\ rootKind # "dir"
    /\ log' = Append(log, Entry(IF rootKind = "missing" THEN "dir_missing" ELSE "not_dir",
                                args.dir))
    /\ todo' = {}
    /\ pc' = "collect"
    /\ UNCHANGED <<args, rootKind, fs, fsChanges, subListed, cur, file_pairs, idx,
                   processed_files, calls, all_files, remaining_files, copied,
                   outdirCreated, exitCode, mvResult>>

\* validate_directory calls exit(1)
ValidateDirectoryFail ==
    /\ pc = "start"
    /\ args.dir # None
    /\ rootKind # "dir"
    /\ log' = Append(log, Entry(IF rootKind = "missing" THEN "dir_missing" ELSE "not_dir",
                                args.dir))
    /\ pc' = "done"
    /\ exitCode' = 1
    /\ UNCHANGED <<args, rootKind, fs, fsChanges, todo, subListed, cur, file_pairs,
                   idx, processed_files, calls, all_files, remaining_files,
                   copied, outdirCreated, mvResult>>

\* validate_directory returns; process_directory lists file_dir
EnterDirectory ==
    /\ pc = "start"
    /\ args.dir # None
    /\ rootKind = "dir"
    /\ todo' = {f \in fs : f.dir = Root}
    /\ file_pairs' = <<>>
    /\ pc' = "collect"
    /\ UNCHANGED <<args, rootKind, fs, fsChanges, subListed, cur, idx,
                   processed_files, calls, log, all_files, remaining_files,
                   copied, outdirCreated, exitCode, mvResult>>

\* ListSub with the walk yielding the entries of file_dir a second time
ListSub_Relist ==
    /\ pc = "collect"
    /\ args.recurse
    /\ ~subListed
    /\ todo' = todo \cup {f \in fs : f.dir \in {Root, Sub}}
    /\ subListed' = TRUE
    /\ UNCHANGED <<args, rootKind, fs, fsChanges, pc, cur, file_pairs, idx,
                   processed_files, calls, log, all_files, remaining_files,
                   copied, outdirCreated, exitCode, mvResult>>

\* rglob("*") reaches the subdirectory and lists it
ListSub ==
    /\ pc = "collect"
    /\ args.recurse
    /\ ~subListed
    /\ todo' = todo \cup {f \in fs : f.dir = Sub}
    /\ subListed' = TRUE
    /\ UNCHANGED <<args, rootKind, fs, fsChanges, pc, cur, file_pairs, idx,
                   processed_files, calls, log, all_files, remaining_files,
                   copied, outdirCreated, exitCode, mvResult>>

\* the condition of line 70 on the next entry of the walk
CollectDecide ==
    /\ pc = "collect"
    /\ \E file \in todo :
        /\ todo' = todo \ {file}
        /\ IF /\ IsFile(file, fs)
              /\ Lower(file.ext) \in {"jpg", "jpeg"}
              /\ matching_video(file, fs) # NoPath
           THEN cur' = file /\ pc' = "append"
           ELSE UNCHANGED <<cur, pc>>
    /\ UNCHANGED <<args, rootKind, fs, fsChanges, subListed, file_pairs, idx,
                   processed_files, calls, log, all_files, remaining_files,
                   copied, outdirCreated, exitCode, mvResult>>

\* line 71: the resolver is called again to build the pair
CollectAppend ==
    /\ pc = "append"
    /\ file_pairs' = Append(file_pairs, <<cur, matching_video(cur, fs)>>)
    /\ cur' = None
    /\ pc' = "collect"
    /\ UNCHANGED <<args, rootKind, fs, fsChanges, todo, subListed, idx,
                   processed_files, calls, log, all_files, remaining_files,
                   copied, outdirCreated, exitCode, mvResult>>

\* CollectDone with the loop of line 69 left before the walk is exhausted
CollectDone_Early ==
    /\ pc = "collect"
    /\ processed_files' = {}
    /\ idx' = 1
    /\ pc' = "pairs"
    /\ UNCHANGED <<args, rootKind, fs, fsChanges, todo, subListed, cur, file_pairs,
                   calls, log, all_files, remaining_files, copied,
                   outdirCreated, exitCode, mvResult>>

\* process_directory returns; main line 87
CollectDone ==
    /\ pc = "collect"
    /\ todo = {}
    /\ args.recurse => subListed
    /\ processed_files' = {}
    /\ idx' = 1
    /\ pc' = "pairs"
    /\ UNCHANGED <<args, rootKind, fs, fsChanges, todo, subListed, cur, file_pairs,
                   calls, log, all_files, remaining_files, copied,
                   outdirCreated, exitCode, mvResult>>

\* ValidatePair with a failed validation ending the run
ValidatePair_Abort ==
    /\ pc = "pairs"
    /\ idx <= Len(file_pairs)
    /\ LET r == validate_media(file_pairs[idx][1], file_pairs[idx][2], fs)
       IN /\ log' = log \o r.errors
          /\ IF r.ok THEN pc' = "convert" /\ exitCode' = exitCode
                     ELSE pc' = "done" /\ exitCode' = 1
    /\ UNCHANGED <<args, rootKind, fs, fsChanges, todo, subListed, cur, file_pairs,
                   idx, processed_files, calls, all_files, remaining_files, copied,
                   outdirCreated, mvResult>>

\* line 89 on pairs[idx]
ValidatePair ==
    /\ pc = "pairs"
    /\ idx <= Len(file_pairs)
    /\ LET r == validate_media(file_pairs[idx][1], file_pairs[idx][2], fs)
       IN /\ log' = log \o r.errors
          /\ IF r.ok THEN pc' = "convert" /\ idx' = idx
                     ELSE pc' = "pairs" /\ idx' = idx + 1
    /\ UNCHANGED <<args, rootKind, fs, fsChanges, todo, subListed, cur, file_pairs,
                   processed_files, calls, all_files, remaining_files, copied,
                   outdirCreated, exitCode, mvResult>>

Call(photo, video, outcome) == [photo |-> photo, video |-> video, outcome |-> outcome]

\* ConvertReturns with line 92 left out
ConvertReturns_OnlyPhoto ==
    /\ pc = "convert"
    /\ calls' = Append(calls, Call(file_pairs[idx][1], file_pairs[idx][2], "returned"))
    /\ processed_files' = processed_files \cup {file_pairs[idx][1]}
    /\ idx' = idx + 1
    /\ pc' = "pairs"
    /\ UNCHANGED <<args, rootKind, fs, fsChanges, todo, subListed, cur, file_pairs,
                   log, all_files, remaining_files, copied, outdirCreated,
                   exitCode, mvResult>>

\* lines 90-92: create_motion_photo returns
ConvertReturns ==
    /\ pc = "convert"
    /\ calls' = Append(calls, Call(file_pairs[idx][1], file_pairs[idx][2], "returned"))
    /\ processed_files' = processed_files \cup {file_pairs[idx][1], file_pairs[idx][2]}
    /\ idx' = idx + 1
    /\ pc' = "pairs"
    /\ UNCHANGED <<args, rootKind, fs, fsChanges, todo, subListed, cur, file_pairs,
                   log, all_files, remaining_files, copied, outdirCreated,
                   exitCode, mvResult>>

\* line 90: create_motion_photo raises; nothing catches it
ConvertRaises ==
    /\ pc = "convert"
    /\ calls' = Append(calls, Call(file_pairs[idx][1], file_pairs[idx][2], "raised"))
    /\ pc' = "done"
    /\ exitCode' = 1
    /\ UNCHANGED <<args, rootKind, fs, fsChanges, todo, subListed, cur, file_pairs,
                   idx, processed_files, log, all_files, remaining_files, copied,
                   outdirCreated, mvResult>>

\* line 94 with copyall unset: main returns
Finish ==
    /\ pc = "pairs"
    /\ idx > Len(file_pairs)
    /\ ~args.copyall
    /\ pc' = "done"
    /\ exitCode' = 0
    /\ UNCHANGED <<args, rootKind, fs, fsChanges, todo, subListed, cur, file_pairs,
                   idx, processed_files, calls, log, all_files, remaining_files,
                   copied, outdirCreated, mvResult>>

\* Reconcile with line 96 not subtracting processed_files
Reconcile_NoSubtract ==
    /\ pc = "pairs"
    /\ idx > Len(file_pairs)
    /\ args.copyall
    /\ all_files' = {file \in fs : file.dir = Root}
    /\ remaining_files' = all_files'
    /\ IF remaining_files' # {}
       THEN outdirCreated' = TRUE /\ pc' = "copy" /\ exitCode' = exitCode
       ELSE outdirCreated' = outdirCreated /\ pc' = "done" /\ exitCode' = 0
    /\ UNCHANGED <<args, rootKind, fs, fsChanges, todo, subListed, cur, file_pairs,
                   idx, processed_files, calls, log, copied, mvResult>>

\* lines 95-101
Reconcile ==
    /\ pc = "pairs"
    /\ idx > Len(file_pairs)
    /\ args.copyall
    /\ all_files' = {file \in fs : file.dir = Root}
    /\ remaining_files' = all_files' \ processed_files
    /\ IF remaining_files' # {}
       THEN outdirCreated' = TRUE /\ pc' = "copy" /\ exitCode' = exitCode
       ELSE outdirCreated' = outdirCreated /\ pc' = "done" /\ exitCode' = 0
    /\ UNCHANGED <<args, rootKind, fs, fsChanges, todo, subListed, cur, file_pairs,
                   idx, processed_files, calls, log, copied, mvResult>>

\* line 105 for the next file of remaining_files: shutil.copy2 returns
CopyReturns ==
    /\ pc = "copy"
    /\ \E file \in remaining_files \ copied :
        /\ file \in fs
        /\ copied' = copied \cup {file}
    /\ UNCHANGED <<args, rootKind, fs, fsChanges, pc, todo, subListed, cur,
                   file_pairs, idx, processed_files, calls, log, all_files,
                   remaining_files, outdirCreated, exitCode, mvResult>>

\* line 105: shutil.copy2 raises (the source is gone, the disk is full)
CopyRaises ==
    /\ pc = "copy"
    /\ remaining_files \ copied # {}
    /\ pc' = "done"
    /\ exitCode' = 1
    /\ UNCHANGED <<args, rootKind, fs, fsChanges, todo, subListed, cur, file_pairs,
                   idx, processed_files, calls, log, all_files, remaining_files,
                   copied, outdirCreated, mvResult>>

\* the loop of line 102 ends
CopyDone ==
    /\ pc = "copy"
    /\ remaining_files \ copied = {}
    /\ pc' = "done"
    /\ exitCode' = 0
    /\ UNCHANGED <<args, rootKind, fs, fsChanges, todo, subListed, cur, file_pairs,
                   idx, processed_files, calls, log, all_files, remaining_files,
                   copied, outdirCreated, mvResult>>

----------------------------------------------------------------------------
(* main, --photo/--video mode *)

\* lines 107-109
ArgsMissing ==
    /\ pc = "start"
    /\ args.dir = None
    /\ args.photo = None \/ args.video = None
    /\ log' = Append(log, Entry("args", None))
    /\ pc' = "done"
    /\ exitCode' = 1
    /\ UNCHANGED <<args, rootKind, fs, fsChanges, todo, subListed, cur, file_pairs,
                   idx, processed_files, calls, all_files, remaining_files,
                   copied, outdirCreated, mvResult>>

\* line 111
ValidateSingle ==
    /\ pc = "start"
    /\ args.dir = None
    /\ args.photo # None /\ args.video # None
    /\ LET r == validate_media(args.photo, args.video, fs)
       IN /\ log' = log \o r.errors
          /\ IF r.ok THEN pc' = "convert1" /\ exitCode' = exitCode
                     ELSE pc' = "done" /\ exitCode' = 0
    /\ UNCHANGED <<args, rootKind, fs, fsChanges, todo, subListed, cur, file_pairs,
                   idx, processed_files, calls, all_files, remaining_files,
                   copied, outdirCreated, mvResult>>

\* line 112
ConvertSingle ==
    /\ pc = "convert1"
    /\ \E outcome \in {"returned", "raised"} :
        /\ calls' = Append(calls, Call(args.photo, args.video, outcome))
        /\ exitCode' = IF outcome = "returned" THEN 0 ELSE 1
    /\ pc' = "done"
    /\ UNCHANGED <<args, rootKind, fs, fsChanges, todo, subListed, cur, file_pairs,
                   idx, processed_files, log, all_files, remaining_files,
                   copied, outdirCreated, mvResult>>

Next ==
    \/ FsChange
    \/ ValidateDirectoryFail
    \/ EnterDirectory
    \/ ListSub
    \/ CollectDecide
    \/ CollectAppend
    \/ CollectDone
    \/ ValidatePair
    \/ ConvertReturns
    \/ ConvertRaises
    \/ Finish
    \/ Reconcile
    \/ CopyReturns
    \/ CopyRaises
    \/ CopyDone
    \/ ArgsMissing
    \/ ValidateSingle
    \/ ConvertSingle

Spec == Init /\ [][Next]_vars

----------------------------------------------------------------------------
(* Direct calls of the companion resolver *)

StemsMV == {A, A1, ABr}
ExtsMV == {"mov", "mp4", "MOV", "MP4", "Mov"}
UniverseMV == {P(Root, s, e) : s \in StemsMV, e \in ExtsMV}

InitMV ==
    /\ args = [dir |-> None, recurse |-> FALSE, copyall |-> FALSE,
               photo |-> None, video |-> None]
    /\ rootKind = "dir"
    /\ fs \in {S \in SUBSET UniverseMV : Cardinality(S) <= MaxEntries}
    /\ fsChanges = 0
    /\ pc = "mv_call"
    /\ todo = {}
    /\ subListed = FALSE
    /\ cur \in {P(Root, s, e) : s \in StemsMV, e \in {"jpg", "JPEG"}}
    /\ file_pairs = <<>>
    /\ idx = 1
    /\ processed_files = {}
    /\ calls = <<>>
    /\ log = <<>>
    /\ all_files = Unbound
    /\ remaining_files = Unbound
    /\ copied = {}
    /\ outdirCreated = FALSE
    /\ exitCode = Running
    /\ mvResult = None

MVCall ==
    /\ pc = "mv_call"
    /\ mvResult' = matching_video(cur, fs)
    /\ pc' = "mv_done"
    /\ UNCHANGED <<args, rootKind, fs, fsChanges, todo, subListed, cur, file_pairs,
                   idx, processed_files, calls, log, all_files, remaining_files,
                   copied, outdirCreated, exitCode>>

NextMV == MVCall

SpecMV == InitMV /\ [][NextMV]_vars

----------------------------------------------------------------------------
(* Properties *)

DirMode == args.dir # None

\* the paths handed to create_motion_photo by the invocations that returned
ReturnedPaths ==
    {calls[i].photo : i \in {k \in 1..Len(calls) : calls[k].outcome = "returned"}}
    \cup {calls[i].video : i \in {k \in 1..Len(calls) : calls[k].outcome = "returned"}}

ProgramStep == fs' = fs

\* the pair that the next step of the program validates, if there is one
AtValidation ==
    \/ pc = "pairs" /\ idx <= Len(file_pairs)
    \/ pc = "start" /\ ~DirMode /\ args.photo # None /\ args.video # None

ThePhoto == IF DirMode THEN file_pairs[idx][1] ELSE args.photo
TheVideo == IF DirMode THEN file_pairs[idx][2] ELSE args.video

FailsValidation(photo, video) ==
    \/ ~Exists(photo, fs)
    \/ ~Exists(video, fs)
    \/ Lower(photo.ext) \notin {"jpg", "jpeg"}
    \/ Lower(video.ext) \notin {"mov", "mp4"}

\* C3: when a pair fails validation the conversion is not invoked for it and
\* ProcessedSet is left alone; in directory mode the run goes on to the next
\* pair, in --photo/--video mode the process ends with status 0.
C3_ValidationFailureSkips ==
    [][(ProgramStep /\ AtValidation /\ FailsValidation(ThePhoto, TheVideo)) =>
        /\ calls' = calls
        /\ processed_files' = processed_files
        /\ DirMode => (pc' = "pairs" /\ idx' = idx + 1 /\ exitCode' = Running)
        /\ ~DirMode => (pc' = "done" /\ exitCode' = 0)]_vars

\* a later pair is being converted after an earlier pair failed validation
C3_Witness ==
    /\ DirMode
    /\ pc = "convert"
    /\ idx = 2
    /\ Len(log) = 1
    /\ calls = <<>>
    /\ processed_files = {}

DirectChildren(S) == {f \in S : f.dir = Root}

\* C4 as stated: after a run with copyAllRemaining that completed, remaining
\* and ProcessedSet are disjoint and their union is exactly the set of files
\* listed directly in rootDir, for either value of the recursive flag; only
\* direct children are copied and no copied file is in ProcessedSet.
C4_Original ==
    (DirMode /\ args.copyall /\ pc = "done" /\ exitCode = 0) =>
        /\ remaining_files \cap processed_files = {}
        /\ remaining_files \cup processed_files = all_files
        /\ all_files = DirectChildren(all_files)
        /\ copied = DirectChildren(copied)
        /\ copied \cap processed_files = {}

\* C4 amended: remaining is the listed direct children of rootDir minus
\* ProcessedSet, so the two are disjoint and their union contains every listed
\* direct child; the union is exactly the listed direct children on a
\* non-recursive run over a directory no other process changed, while after
\* recursive pairing ProcessedSet also holds files of subdirectories. Only
\* direct children that are not in ProcessedSet are copied, and a run that
\* completes has copied all of remaining.
C4_Amended ==
    (DirMode /\ all_files # Unbound) =>
        /\ args.copyall
        /\ all_files = DirectChildren(all_files)
        /\ remaining_files \cap processed_files = {}
        /\ remaining_files \cup processed_files = all_files \cup processed_files
        /\ remaining_files \subseteq all_files
        /\ (~args.recurse /\ fsChanges = 0) =>
                remaining_files \cup processed_files = all_files
        /\ copied \subseteq remaining_files
        /\ copied \cap processed_files = {}
        /\ (pc = "done" /\ exitCode = 0) => copied = remaining_files

C4_Witness ==
    /\ DirMode
    /\ args.copyall
    /\ args.recurse
    /\ pc = "done"
    /\ exitCode = 0
    /\ P(Sub, B, "JPG") \in processed_files
    /\ P(Root, A, "jpg") \in processed_files
    /\ copied = {P(Root, C, "txt")}

\* the companion the resolver is to return for photo in the directory listing
\* fsys: the first of stem.mov, stem.mp4, stem.MOV, stem.MP4 that is an entry
ExpectedCompanion(photo, fsys) ==
    LET cand(e) == [dir |-> photo.dir, stem |-> photo.stem, ext |-> e]
    IN  IF cand("mov") \in fsys THEN cand("mov")
        ELSE IF cand("mp4") \in fsys THEN cand("mp4")
        ELSE IF cand("MOV") \in fsys THEN cand("MOV")
        ELSE IF cand("MP4") \in fsys THEN cand("MP4")
        ELSE NoPath

\* C5 as stated: for every photo path and every set of entries of its
\* directory the resolver returns the first of stem.mov, stem.mp4, stem.MOV,
\* stem.MP4 that exists, the no-match value exactly when none exists, and never
\* an entry with another casing of the extension.
C5_Original ==
    pc = "mv_done" =>
        /\ mvResult = ExpectedCompanion(cur, fs)
        /\ mvResult # NoPath => mvResult.ext \in {"mov", "mp4", "MOV", "MP4"}

\* C6 as stated: no path, photo or video, is passed to the conversion in more
\* than one invocation of a directory-mode run.
C6_Original ==
    DirMode =>
        \A i, j \in 1..Len(calls) :
            i # j => {calls[i].photo, calls[i].video} \cap {calls[j].photo, calls[j].video} = {}

\* C6 amended: no photo path is passed to the conversion in more than one
\* invocation, as photo or as video, and every pair of the list is converted
\* at most once; a video path is passed again when several photos share its
\* stem.
C6_Amended ==
    DirMode =>
        /\ \A i, j \in 1..Len(calls) :
            i # j => (calls[i].photo # calls[j].photo /\ calls[i].photo # calls[j].video)
        /\ Len(calls) <= Len(file_pairs)
        /\ \A i, j \in 1..Len(file_pairs) : i # j => file_pairs[i][1] # file_pairs[j][1]

C6_Witness ==
    /\ DirMode
    /\ Len(calls) = 2
    /\ calls[1].video = calls[2].video
    /\ calls[1].photo # calls[2].photo

\* C7 as stated: every pair of the collected list has a photo as first element
\* and, as second element, a path of the same directory and stem with suffix
\* .mov, .mp4, .MOV or .MP4, never the no-match value, also when the
\* filesystem changes while the collection runs.
C7_Original ==
    \A i \in 1..Len(file_pairs) :
        /\ Lower(file_pairs[i][1].ext) \in {"jpg", "jpeg"}
        /\ file_pairs[i][2] # NoPath
        /\ file_pairs[i][2].dir = file_pairs[i][1].dir
        /\ file_pairs[i][2].stem = file_pairs[i][1].stem
        /\ file_pairs[i][2].ext \in {"mov", "mp4", "MOV", "MP4"}

FatalPrecondition ==
    \/ DirMode /\ rootKind # "dir"
    \/ ~DirMode /\ (args.photo = None \/ args.video = None)

\* C8: with a root that is missing or not a directory, or without --dir and
\* without one of --photo/--video, the process ends with exit code 1 and does
\* no work: no pair collected, no conversion, no copy, no output directory.
C8_FatalExitsWithoutWork ==
    FatalPrecondition =>
        /\ pc \in {"start", "done"}
        /\ pc = "done" => exitCode = 1
        /\ file_pairs = <<>>
        /\ todo = {}
        /\ calls = <<>>
        /\ processed_files = {}
        /\ all_files = Unbound
        /\ copied = {}
        /\ ~outdirCreated

C8_Witness ==
    /\ DirMode
    /\ rootKind = "file"
    /\ pc = "done"
    /\ exitCode = 1
    /\ Len(log) = 1

\* the first check of the order photo-exists, video-exists, photo-extension,
\* video-extension that a pair fails, with the path the check is about
FirstFailure(photo, video) ==
    IF ~Exists(photo, fs) THEN Entry("photo_exists", photo)
    ELSE IF ~Exists(video, fs) THEN Entry("video_exists", video)
    ELSE IF Lower(photo.ext) \notin {"jpg", "jpeg"} THEN Entry("photo_ext", photo)
    ELSE Entry("video_ext", video)

\* C9 as stated: a failed validation logs exactly one error, the one of the
\* first failing check, with the photo path for a photo check and the video
\* path for a video check.
C9_Original ==
    [][(ProgramStep /\ AtValidation /\ FailsValidation(ThePhoto, TheVideo)) =>
        log' = Append(log, FirstFailure(ThePhoto, TheVideo))]_vars

Rank(l) ==
    CASE l = "start" -> 0
      [] l \in {"collect", "append"} -> 1
      [] l \in {"pairs", "convert"} -> 2
      [] l = "copy" -> 3
      [] OTHER -> 4

\* C10: a directory-mode run never goes back to an earlier stage; the pair
\* list is complete and frozen before the first conversion, the pairs are
\* visited one by one in list order, the leftovers are computed once, after
\* the last pair, and ProcessedSet only grows.
C10_LinearPipeline ==
    [][DirMode =>
        /\ Rank(pc') >= Rank(pc)
        /\ Rank(pc) >= 2 => (todo = {} /\ (args.recurse => subListed))
        /\ Rank(pc) >= 2 => file_pairs' = file_pairs
        /\ calls' # calls =>
            /\ pc = "convert"
            /\ Len(calls') = Len(calls) + 1
            /\ calls'[Len(calls')].photo = file_pairs[idx][1]
            /\ calls'[Len(calls')].video = file_pairs[idx][2]
            /\ calls'[Len(calls')].outcome = "returned" => idx' = idx + 1
        /\ idx' \in {idx, idx + 1}
        /\ idx <= Len(file_pairs) + 1
        /\ processed_files \subseteq processed_files'
        /\ all_files' # all_files =>
            /\ all_files = Unbound
            /\ pc = "pairs"
            /\ idx = Len(file_pairs) + 1
            /\ processed_files' = processed_files
        /\ Rank(pc) = 3 => UNCHANGED <<all_files, remaining_files, processed_files, idx>>]_vars

C10_Witness ==
    /\ DirMode
    /\ pc = "copy"
    /\ Len(calls) = 2
    /\ Len(file_pairs) = 3
    /\ Len(log) = 1
    /\ copied # {}

====
